---- MODULE Spec2Model ----
(***************************************************************************)
(* Randomized binary search tree (main.c): insertRBST with probabilistic   *)
(* flatten + rebuild, and freeRBST.  The heap of TreeNodes is modelled     *)
(* explicitly (addresses, malloc, free) so that ownership and release      *)
(* accounting can be stated.  One action is one call of a public function; *)
(* the outcomes of drand48() and rand() are inputs of the call.            *)
(***************************************************************************)
EXTENDS Integers, Sequences, FiniteSets, Bags, TLC

\* ---------------------------------------------------------------- bounds
\* Number of insertRBST calls of one run of the driver loop.
MaxInserts == 4
\* Keys are drawn from 1..MaxKey.
MaxKey == 2
\* drand48() is modelled with resolution 1/DrandRes: it returns u/DrandRes
\* for u in 0..DrandRes-1 (a value of [0,1)).
DrandRes == 2

Keys == 1..MaxKey
NULL == 0
\* Addresses malloc can hand out.  A rebuild of s nodes holds s+1 released
\* and s+1 fresh nodes at once.
Addr == 1..(2 * MaxInserts)
\* Content of memory that malloc returned and nobody wrote yet.
Uninit == -1

VARIABLES
    heap,        \* the allocated TreeNodes: address -> [key, size, left, right]
    root,        \* bst->root
    bstLive,     \* the RBST struct is allocated (initRBST .. freeRBST)
    outstanding, \* number of createNode calls minus number of free(TreeNode) calls
    memErr,      \* memory errors seen so far (double free, use after free, ...)
    inserted,    \* bag of the keys passed to insertRBST so far
    lastCall     \* what the last call did: its return value and its trace

vars == <<heap, root, bstLive, outstanding, memErr, inserted, lastCall>>

\* ------------------------------------------------------- pure tree helpers
RECURSIVE Inorder(_, _)
\* Addresses of the subtree at p, in in-order (left, self, right).
Inorder(h, p) ==
    IF p = NULL \/ p \notin DOMAIN h THEN <<>>
    ELSE Inorder(h, h[p].left) \o <<p>> \o Inorder(h, h[p].right)

KeysOf(h, ps) == [i \in 1..Len(ps) |-> h[ps[i]].key]
InorderKeys(h, p) == KeysOf(h, Inorder(h, p))
SeqSet(s) == {s[i] : i \in 1..Len(s)}
Reach(h, p) == SeqSet(Inorder(h, p))
SeqBag(s) == [k \in SeqSet(s) |-> Cardinality({i \in 1..Len(s) : s[i] = k})]
Sorted(s) == \A i \in 1..(Len(s) - 1) : s[i] <= s[i + 1]

\* lines 37-42: use the larger one
Larger(lheight, rheight) ==
    IF lheight > rheight THEN lheight + 1 ELSE rheight + 1

RECURSIVE height(_, _)
height(h, node) ==
    IF node = NULL THEN 0
    ELSE Larger(height(h, h[node].left), height(h, h[node].right))

\* ------------------------------------------------------------ the memory
\* A call context c carries the heap and the by-reference locals of the call.
\* Reading or writing through a pointer that is not allocated, and reading
\* memory nobody wrote, is undefined behaviour: it is recorded in c.err, and
\* C5_Ownership and C9_Linearize below state that no call ever does it.
Touch(c, p) ==
    IF p \in DOMAIN c.heap THEN c ELSE [c EXCEPT !.err = @ \cup {"use_after_free"}]

JunkNode == [key |-> Uninit, size |-> Uninit, left |-> NULL, right |-> NULL]
Val(c, p) == IF p \in DOMAIN c.heap THEN c.heap[p] ELSE JunkNode

SetField(c, p, f, v) ==
    IF p \in DOMAIN c.heap
    THEN [c EXCEPT !.heap = [c.heap EXCEPT ![p] = [c.heap[p] EXCEPT ![f] = v]]]
    ELSE [c EXCEPT !.err = @ \cup {"use_after_free"}]

\* free(node)
Free(c, p) ==
    IF p \in DOMAIN c.heap
    THEN [c EXCEPT !.heap = [a \in (DOMAIN c.heap) \ {p} |-> c.heap[a]],
                   !.quarantine = @ \cup {p},
                   !.nfree = @ + 1]
    ELSE [c EXCEPT !.err = @ \cup {"double_free"}, !.nfree = @ + 1]

\* malloc(sizeof(TreeNode)): some address that is not allocated.  Addresses
\* released during the running call are not handed out again within it, so a
\* stale pointer never aliases a fresh node.
FreeAddrs(c) == Addr \ ((DOMAIN c.heap) \cup c.quarantine)
Malloc(c) == CHOOSE a \in FreeAddrs(c) : \A b \in FreeAddrs(c) : a <= b

\* bstArr[i] = v
Store(c, i, v) ==
    IF i \in DOMAIN c.arr
    THEN [c EXCEPT !.arr = [c.arr EXCEPT ![i] = v], !.wr = Append(@, i)]
    ELSE [c EXCEPT !.err = @ \cup {"oob_write"}, !.wr = Append(@, i)]

\* bstArr[i]
ArrTouch(c, i) ==
    IF i \in DOMAIN c.arr /\ c.arr[i] # Uninit THEN c
    ELSE [c EXCEPT !.err = @ \cup {"bad_array_read"}]
ArrVal(c, i) == IF i \in DOMAIN c.arr THEN c.arr[i] ELSE Uninit

\* the next value of drand48() / rand()
NextDrand(c) == IF c.coin = <<>> THEN DrandRes - 1 ELSE Head(c.coin)
PopDrand(c) == IF c.coin = <<>> THEN c ELSE [c EXCEPT !.coin = Tail(@)]
NextRand(c) == IF c.rnd = <<>> THEN 0 ELSE Head(c.rnd)
PopRand(c) == IF c.rnd = <<>> THEN c ELSE [c EXCEPT !.rnd = Tail(@)]

\* --------------------------------------------------------------- createNode
\* malloc is taken to succeed: when it returns NULL the program exits
\* (lines 61-63) and no call completes.
createNode(c, key) ==
    LET newNode == Malloc(c)
    IN  [c |-> [c EXCEPT !.heap = (newNode :> [key |-> key, size |-> 1,
                                               left |-> NULL, right |-> NULL]) @@ c.heap,
                         !.nalloc = @ + 1],
         p |-> newNode]

\* (*nodesVisited)++
Visit(c) == [c EXCEPT !.nv = @ + 1]

\* ----------------------------------------------------------------- makeRBST
\* line 100: index = first + (rand() % (last - first + 1))
PivotIndex(first, last, r) == first + (r % (last - first + 1))

\* lines 108-113, one child: newNode->size += child->size unless child is NULL
AddChildSize(c, newNode, child) ==
    IF child # NULL
    THEN SetField(Touch(c, child), newNode, "size",
                  Val(c, newNode).size + Val(c, child).size)
    ELSE c

AddLeftSize(c, newNode) == AddChildSize(Touch(c, newNode), newNode, Val(c, newNode).left)
AddRightSize(c, newNode) == AddChildSize(Touch(c, newNode), newNode, Val(c, newNode).right)

\* lines 107-115: the size of the node from the sizes of its children
UpdateSize(c, newNode) == AddRightSize(AddLeftSize(c, newNode), newNode)

RECURSIVE makeRBST(_, _, _, _, _)

\* lines 95 / 104, given the result l of the call that built the left
\* subtree: newNode->left = l; then the call for the right subtree
MakeRight(l, newNode, index, last, newNodeIndex, isAdded) ==
    makeRBST(SetField(l.c, newNode, "left", l.p), index + 1, last, newNodeIndex, isAdded)

\* lines 95 / 104 and 107-115, given the result r of the call that built the
\* right subtree: newNode->right = r; update the size; return newNode
MakeDone(r, newNode) ==
    [c |-> UpdateSize(SetField(r.c, newNode, "right", r.p), newNode), p |-> newNode]

\* lines 94-95 / 103-104 for the node n = createNode(bstArr[index])
MakeChildren(n, first, last, index, newNodeIndex, isAdded) ==
    MakeDone(MakeRight(makeRBST(n.c, first, index - 1, newNodeIndex, isAdded),
                       n.p, index, last, newNodeIndex, isAdded),
             n.p)

\* lines 91-95 (index = newNodeIndex) and 102-104 (index the random pivot)
MakeNode(c, first, last, index, newNodeIndex, isAdded) ==
    MakeChildren(createNode(ArrTouch(c, index), ArrVal(c, index)),
                 first, last, index, newNodeIndex, isAdded)

\* Returns [c, p]: the context after the call and the subtree built from
\* bstArr[first..last].  nodesVisited is c.nv.
makeRBST(c, first, last, newNodeIndex, isAdded) ==
    IF last < first THEN [c |-> c, p |-> NULL]
    ELSE IF ~isAdded
         THEN MakeNode(Visit(c), first, last, newNodeIndex, newNodeIndex, TRUE)
         ELSE MakeNode(PopRand(Visit(c)), first, last,
                       PivotIndex(first, last, NextRand(c)), newNodeIndex, isAdded)

\* -------------------------------------------------------------- flattenRBST
\* AppendAtEnd with arrLength for arrLength - 1 in line 129.
AppendAtEnd_OffByOne(isAdded, curIndex, arrLength) ==
    ~isAdded /\ curIndex = arrLength

\* line 129: the new key is not in the array yet and one slot is left
AppendAtEnd(isAdded, curIndex, arrLength) ==
    ~isAdded /\ curIndex = arrLength - 1

\* PlaceBefore with <= for < in line 142.
PlaceBefore_OrEqual(newKey, curKey, isAdded) ==
    newKey <= curKey /\ ~isAdded

\* line 142: the new key goes right before the current node's key
PlaceBefore(newKey, curKey, isAdded) ==
    newKey < curKey /\ ~isAdded

\* bstArr[*curIndex] = key; (*curIndex)++
Emit(c, key) == [Store(c, c.curIndex, key) EXCEPT !.curIndex = c.curIndex + 1]

\* lines 130-132 and 143-145: the new key goes to the array
EmitNew(c, newNode) ==
    [Emit(Touch(c, newNode), Val(c, newNode).key) EXCEPT !.newNodeIndex = c.curIndex]

\* lines 129-135
FlattenLeaf(c, newNode, arrLength) ==
    IF AppendAtEnd(c.isAdded, c.curIndex, arrLength) THEN EmitNew(c, newNode) ELSE c

\* lines 142-147
FlattenNew(c, newNode, currentNode) ==
    IF PlaceBefore(Val(c, newNode).key, Val(c, currentNode).key, c.isAdded)
    THEN [EmitNew(c, newNode) EXCEPT !.isAdded = TRUE]
    ELSE c

\* FlattenCurrent without the (*nodesVisited)++ of line 149.
FlattenCurrent_Uncounted(c, currentNode) ==
    Emit(Touch(c, currentNode), Val(c, currentNode).key)

\* lines 149-151
FlattenCurrent(c, currentNode) ==
    Emit(Visit(Touch(c, currentNode)), Val(c, currentNode).key)

RECURSIVE flattenRBST(_, _, _, _)

\* line 139
FlattenLeft(c, newNode, currentNode, arrLength) ==
    flattenRBST(Touch(c, currentNode), newNode, Val(c, currentNode).left, arrLength)

\* line 154
FlattenRight(c, newNode, currentNode, arrLength) ==
    flattenRBST(Touch(c, currentNode), newNode, Val(c, currentNode).right, arrLength)

\* bstArr, curIndex, newNodeIndex, isAdded and nodesVisited are c.arr,
\* c.curIndex, c.newNodeIndex, c.isAdded and c.nv.
flattenRBST(c, newNode, currentNode, arrLength) ==
    IF currentNode = NULL THEN FlattenLeaf(c, newNode, arrLength)
    ELSE Free(FlattenRight(
                FlattenCurrent(
                  FlattenNew(Touch(Touch(FlattenLeft(c, newNode, currentNode, arrLength),
                                         newNode), currentNode),
                             newNode, currentNode),
                  currentNode),
                newNode, currentNode, arrLength),
              currentNode)

\* ---------------------------------------------------------- reconstructRBST
\* lines 166-171: the locals of the call.  c.at, c.arrLength and c.nvEnter
\* keep the node the call was made at, the array length and nodesVisited on
\* entry.
ReconstructEnter(c, currentNode, arrLength) ==
    [Touch(c, currentNode)
       EXCEPT !.arr = [i \in 0..(arrLength - 1) |-> Uninit],
              !.wr = <<>>,
              !.newNodeIndex = Uninit,
              !.curIndex = 0,
              !.isAdded = FALSE,
              !.rebuilds = @ + 1,
              !.at = currentNode,
              !.nvEnter = c.nv,
              !.arrLength = arrLength]

\* line 178, the argument newNodeIndex, which is unset unless flattenRBST set it.
\* c.nni keeps the value passed on, c.nvFlat nodesVisited after the flatten.
ReadNewNodeIndex(c) ==
    IF c.newNodeIndex = Uninit
    THEN [c EXCEPT !.err = @ \cup {"uninit_newNodeIndex"}, !.nni = Uninit, !.nvFlat = c.nv]
    ELSE [c EXCEPT !.nni = c.newNodeIndex, !.nvFlat = c.nv]

\* lines 180-182, given the result r of makeRBST: c.sub keeps the subtree returned
ReconstructDone(r) == [c |-> [r.c EXCEPT !.sub = r.p], p |-> r.p]

\* ReconstructMake with isAddedBST initialised to true in line 171.
ReconstructMake_Unpinned(c) ==
    ReconstructDone(makeRBST(c, 0, c.arrLength - 1, c.nni, TRUE))

\* lines 178-182
ReconstructMake(c) ==
    ReconstructDone(makeRBST(c, 0, c.arrLength - 1, c.nni, FALSE))

\* reconstructRBST without the free(newNode) of line 175.
reconstructRBST_KeepsNewNode(c, currentNode, newNode) ==
    ReconstructMake(
      ReadNewNodeIndex(
        flattenRBST(ReconstructEnter(c, currentNode, Val(c, currentNode).size + 1),
                    newNode, currentNode, Val(c, currentNode).size + 1)))

\* Returns [c, p].
reconstructRBST(c, currentNode, newNode) ==
    ReconstructMake(
      ReadNewNodeIndex(
        Free(flattenRBST(ReconstructEnter(c, currentNode, Val(c, currentNode).size + 1),
                         newNode, currentNode, Val(c, currentNode).size + 1),
             newNode)))

\* --------------------------------------------------------- insertRBSTHelper
\* line 205: drand48() < 1.0 / (size + 1), with drand48() = u / DrandRes
RebuildHere(u, size) == u * (size + 1) < DrandRes

\* GoLeft with the comparison turned around.
GoLeft_Reversed(newKey, curKey) == newKey > curKey

\* line 214: the new key belongs to the left subtree
GoLeft(newKey, curKey) == newKey < curKey

\* GrowSize without the increment of line 211.
GrowSize_Skipped(c, currentNode) == c

\* line 211
GrowSize(c, currentNode) ==
    SetField(c, currentNode, "size", Val(c, currentNode).size + 1)

\* Attach with line 218 assigning currentNode->left as line 215 does.
Attach_AlwaysLeft(r, currentNode, side) ==
    [c |-> SetField(r.c, currentNode, "left", r.p), p |-> currentNode]

\* lines 215 / 218 and 221, given the result r of the recursive call
Attach(r, currentNode, side) ==
    [c |-> SetField(r.c, currentNode, side, r.p), p |-> currentNode]

RECURSIVE insertRBSTHelper(_, _, _)

\* lines 214-221
Descend(c, currentNode, newNode) ==
    IF GoLeft(Val(c, newNode).key, Val(c, currentNode).key)
    THEN Attach(insertRBSTHelper(c, Val(c, currentNode).left, newNode),
                currentNode, "left")
    ELSE Attach(insertRBSTHelper(c, Val(c, currentNode).right, newNode),
                currentNode, "right")

\* lines 205-221
RebuildOrDescend(c, currentNode, newNode) ==
    IF RebuildHere(NextDrand(c), Val(c, currentNode).size)
    THEN reconstructRBST(PopDrand(c), currentNode, newNode)
    ELSE Descend(Touch(GrowSize(PopDrand(c), currentNode), newNode),
                 currentNode, newNode)

\* Returns [c, p].
insertRBSTHelper(c, currentNode, newNode) ==
    IF currentNode = NULL THEN [c |-> c, p |-> newNode]
    ELSE RebuildOrDescend(Touch(Visit(c), currentNode), currentNode, newNode)

\* --------------------------------------------------------------- insertRBST
\* The context of a call: the heap as the call finds it, the outcomes of the
\* random draws, and the by-reference locals not yet set.
NewCall(h, coin, rnd) ==
    [heap |-> h, quarantine |-> {}, nalloc |-> 0, nfree |-> 0, err |-> {},
     nv |-> 0, coin |-> coin, rnd |-> rnd,
     arr |-> <<>>, wr |-> <<>>, curIndex |-> 0, newNodeIndex |-> Uninit,
     isAdded |-> FALSE, rebuilds |-> 0, at |-> NULL, sub |-> NULL,
     arrLength |-> 0, nni |-> Uninit, nvEnter |-> 0, nvFlat |-> 0]

\* lines 240-242 / 245-247, given the context after the call and the new root
InsertDone(r, newNode) ==
    [c |-> r.c, root |-> r.p, ret |-> r.c.nv, newNode |-> newNode]

\* lines 239-247 for newNode = n.p
InsertNode(n, bstRoot) ==
    IF bstRoot = NULL
    THEN InsertDone(n, n.p)
    ELSE InsertDone(insertRBSTHelper(n.c, bstRoot, n.p), n.p)

\* lines 235-236
CreateAndCount(n) == [c |-> Visit(n.c), p |-> n.p]

\* Returns [c, root, ret, newNode]: the context after the call, the new
\* bst->root, the returned nodesVisited and the node createNode returned.
insertRBST(c, bstRoot, key) ==
    InsertNode(CreateAndCount(createNode(c, key)), bstRoot)

\* ----------------------------------------------------------------- freeRBST
RECURSIVE freeRBSTHelper(_, _)

\* line 257
FreeLeft(c, currentNode) ==
    freeRBSTHelper(Touch(c, currentNode), Val(c, currentNode).left)

\* line 258
FreeRight(c, currentNode) ==
    freeRBSTHelper(Touch(c, currentNode), Val(c, currentNode).right)

\* freeRBSTHelper with line 256 moved above the NULL check of line 254.
freeRBSTHelper_CountsNull(c, currentNode) ==
    IF currentNode = NULL THEN Visit(c)
    ELSE Free(FreeRight(FreeLeft(Visit(c), currentNode), currentNode), currentNode)

freeRBSTHelper(c, currentNode) ==
    IF currentNode = NULL THEN c
    ELSE Free(FreeRight(FreeLeft(Visit(c), currentNode), currentNode), currentNode)

\* lines 266-272 given the context after freeRBSTHelper
FreeDone(c) == [c |-> c, ret |-> c.nv]

\* Returns [c, ret].
freeRBST(c, bstRoot) == FreeDone(freeRBSTHelper(c, bstRoot))

\* ------------------------------------------------------------- the actions
RECURSIVE SearchPath(_, _, _)
\* The sizes of the nodes the descent for key visits from p down (lines 214-219).
SearchPath(h, p, key) ==
    IF p = NULL THEN <<>>
    ELSE <<h[p].size>> \o
         SearchPath(h, IF GoLeft(key, h[p].key) THEN h[p].left ELSE h[p].right, key)

\* The index of the first draw of coin that triggers a rebuild on the path
\* of the given sizes (0: none does).
Trigger(coin, sizes) ==
    LET hit == {i \in 1..Len(sizes) : RebuildHere(coin[i], sizes[i])}
    IN  IF hit = {} THEN 0 ELSE CHOOSE i \in hit : \A j \in hit : i <= j

\* The outcomes of the drand48() calls of one insert: one per node of the
\* search path.  The call returns at the first draw that triggers a rebuild
\* and consumes none after it; of the sequences that differ only after it,
\* the one that is 0 there (a draw that would trigger again) is kept.
CoinSeqs(sizes) ==
    {coin \in [1..Len(sizes) -> 0..(DrandRes - 1)] :
        \A j \in 1..Len(sizes) :
            (Trigger(coin, sizes) # 0 /\ j > Trigger(coin, sizes)) => coin[j] = 0}

\* The size of the subtree the rebuild is triggered at (0: no rebuild).
TriggerSize(coin, sizes) ==
    IF Trigger(coin, sizes) = 0 THEN 0 ELSE sizes[Trigger(coin, sizes)]

\* The outcomes of the rand() calls of one rebuild of s old nodes.  The k-th
\* call picks in a range of at most s - k + 1 entries, so values up to s - k
\* reach every index rand() % (last - first + 1) can give.
RandSeqs(s) == {f \in [1..s -> 0..(s - 1)] : \A k \in 1..s : f[k] <= s - k}

Below(dl, dr) == IF dl >= 0 THEN dl + 1 ELSE IF dr >= 0 THEN dr + 1 ELSE -1

RECURSIVE Depth(_, _, _)
\* Number of proper ancestors of node p in the tree at r (-1: p is not in it).
Depth(h, r, p) ==
    IF r = NULL \/ r \notin DOMAIN h THEN -1
    ELSE IF r = p THEN 0
    ELSE Below(Depth(h, h[r].left, p), Depth(h, h[r].right, p))

NoCall ==
    [op |-> "init", key |-> 0, ret |-> 0, newNode |-> NULL, rebuilds |-> 0,
     at |-> NULL, sub |-> NULL, preKeys |-> <<>>, preSub |-> <<>>,
     preSubNodes |-> {}, preLive |-> {}, arr |-> <<>>, arrLength |-> 0,
     wr |-> <<>>, nni |-> Uninit, nvEnter |-> 0, nvFlat |-> 0,
     nalloc |-> 0, nfree |-> 0]

Init ==
    /\ heap = <<>>
    /\ root = NULL
    /\ bstLive = TRUE
    /\ outstanding = 0
    /\ memErr = {}
    /\ inserted = EmptyBag
    /\ lastCall = NoCall

\* The state after a call insertRBST(bst, key) that ended as r.
InsertReturns(r, key) ==
    /\ heap' = r.c.heap
    /\ root' = r.root
    /\ bstLive' = bstLive
    /\ outstanding' = outstanding + r.c.nalloc - r.c.nfree
    /\ memErr' = memErr \cup r.c.err
    /\ inserted' = inserted (+) SetToBag({key})
    /\ lastCall' =
         [op |-> "insert", key |-> key, ret |-> r.ret,
          newNode |-> r.newNode, rebuilds |-> r.c.rebuilds,
          at |-> r.c.at, sub |-> r.c.sub,
          preKeys |-> InorderKeys(heap, root),
          preSub |-> InorderKeys(heap, r.c.at),
          preSubNodes |-> Reach(heap, r.c.at),
          preLive |-> DOMAIN heap,
          arr |-> r.c.arr, arrLength |-> r.c.arrLength,
          wr |-> r.c.wr, nni |-> r.c.nni,
          nvEnter |-> r.c.nvEnter, nvFlat |-> r.c.nvFlat,
          nalloc |-> r.c.nalloc, nfree |-> r.c.nfree]

\* One call insertRBST(bst, key) of the driver loop (lines 308-310).
InsertRBST ==
    /\ bstLive
    /\ BagCardinality(inserted) < MaxInserts
    /\ \E key \in Keys :
       \E coin \in CoinSeqs(SearchPath(heap, root, key)) :
       \E rnd \in RandSeqs(TriggerSize(coin, SearchPath(heap, root, key))) :
         InsertReturns(insertRBST(NewCall(heap, coin, rnd), root, key), key)

\* The state after a call freeRBST(bst) that ended as r.
FreeReturns(r) ==
    /\ heap' = r.c.heap
    /\ root' = root
    /\ bstLive' = FALSE
    /\ outstanding' = outstanding + r.c.nalloc - r.c.nfree
    /\ memErr' = memErr \cup r.c.err
    /\ inserted' = inserted
    /\ lastCall' = [NoCall EXCEPT !.op = "free", !.ret = r.ret,
                                  !.preKeys = InorderKeys(heap, root),
                                  !.preLive = DOMAIN heap,
                                  !.nalloc = r.c.nalloc,
                                  !.nfree = r.c.nfree]

\* The call freeRBST(bst) that ends the driver (line 315).
FreeRBST ==
    /\ bstLive
    /\ FreeReturns(freeRBST(NewCall(heap, <<>>, <<>>), root))

Next == InsertRBST \/ FreeRBST

Spec == Init /\ [][Next]_vars

TypeOK ==
    /\ DOMAIN heap \subseteq Addr
    /\ root \in Addr \cup {NULL}
    /\ bstLive \in BOOLEAN
    /\ outstanding \in Nat

\* --------------------------------------------------------------- the claims
Inserts == BagCardinality(inserted)
TreeKeys == InorderKeys(heap, root)
TreeNodes == Reach(heap, root)
SizeOf(p) == IF p = NULL THEN 0 ELSE heap[p].size
Pos(seq, x) == CHOOSE i \in 1..Len(seq) : seq[i] = x
RemoveAt(seq, i) == SubSeq(seq, 1, i - 1) \o SubSeq(seq, i + 1, Len(seq))
\* The array bstArr of the last rebuild as a sequence.
LastArr == [i \in 1..lastCall.arrLength |-> lastCall.arr[i - 1]]
Inserted == lastCall.op = "insert"
Rebuilt == lastCall.op = "insert" /\ lastCall.rebuilds > 0
Descended == lastCall.op = "insert" /\ lastCall.rebuilds = 0
\* The node that holds the occurrence of the key the last insert added: the
\* node createNode returned, or the root of the rebuilt subtree.
Landed == IF lastCall.rebuilds = 0 THEN lastCall.newNode ELSE lastCall.sub

\* C1: after every insertRBST call the in-order traversal of the tree is
\* non-decreasing and holds, as a multiset, exactly the keys inserted so far.
C1_Ordering ==
    bstLive => /\ Sorted(TreeKeys)
               /\ SeqBag(TreeKeys) = inserted

\* C1 witness: a tree of at least three keys, two of them equal, whose last
\* insert rebuilt a subtree.
C1_Witness ==
    /\ bstLive /\ Rebuilt
    /\ Len(TreeKeys) >= 3
    /\ Cardinality(SeqSet(TreeKeys)) \in 2..(Len(TreeKeys) - 1)

\* C2 as stated: for every node, every key of the left subtree is strictly
\* less than the node's key and every key of the right subtree is greater
\* than or equal to it.
C2_StrictLeft ==
    bstLive =>
      \A p \in TreeNodes :
        /\ \A q \in Reach(heap, heap[p].left) : heap[q].key < heap[p].key
        /\ \A q \in Reach(heap, heap[p].right) : heap[q].key >= heap[p].key

\* C2 amended: for every node, every key of the left subtree is less than or
\* equal to the node's key and every key of the right subtree is greater than
\* or equal to it; and an insert that ends by descent to an empty slot puts
\* the new node in the left subtree only of nodes with a strictly greater key.
C2_BstOrder ==
    bstLive =>
      /\ \A p \in TreeNodes :
           /\ \A q \in Reach(heap, heap[p].left) : heap[q].key <= heap[p].key
           /\ \A q \in Reach(heap, heap[p].right) : heap[q].key >= heap[p].key
      /\ Descended =>
           \A p \in TreeNodes :
             lastCall.newNode \in Reach(heap, heap[p].left)
               => lastCall.key < heap[p].key

\* C2 witness: a rebuild left a key in the left subtree of a node with an
\* equal key.
C2_Witness ==
    /\ bstLive /\ Rebuilt
    /\ \E p \in TreeNodes : \E q \in Reach(heap, heap[p].left) :
         heap[q].key = heap[p].key

\* C3: after every insertRBST call every node has
\* size = 1 + size(left) + size(right), an absent child counting 0, and the
\* root's size is the number of keys inserted.
C3_Size ==
    bstLive =>
      /\ \A p \in TreeNodes :
           heap[p].size = 1 + SizeOf(heap[p].left) + SizeOf(heap[p].right)
      /\ SizeOf(root) = Inserts

\* C3 witness: an insert that descended through at least one node and then
\* rebuilt a subtree of at least two old nodes.
C3_Witness ==
    /\ bstLive /\ Rebuilt
    /\ Depth(heap, root, lastCall.sub) >= 1
    /\ Len(lastCall.preSub) >= 2

\* C4: after n insertRBST calls exactly n nodes are reachable from the root,
\* and freeRBST on that tree returns n.
C4_Count ==
    /\ bstLive => Cardinality(TreeNodes) = Inserts
    /\ lastCall.op = "free" => lastCall.ret = Inserts

\* C4 witness: freeRBST ran on a tree of at least three keys with duplicates.
C4_Witness ==
    /\ lastCall.op = "free"
    /\ lastCall.ret >= 3
    /\ Cardinality(SeqSet(lastCall.preKeys)) < Len(lastCall.preKeys)

\* C5: no node is released twice or used after its release; after every
\* insertRBST call the allocated and not released nodes are exactly the nodes
\* reachable from the root; a rebuild of a subtree of s nodes releases those
\* s nodes and the incoming new node and allocates s + 1 fresh ones; after
\* freeRBST no node is left allocated.
C5_Ownership ==
    /\ memErr \cap {"double_free", "use_after_free"} = {}
    /\ outstanding = Cardinality(DOMAIN heap)
    /\ bstLive => DOMAIN heap = TreeNodes
    /\ Rebuilt =>
         /\ lastCall.preLive \ DOMAIN heap = lastCall.preSubNodes
         /\ lastCall.newNode \notin DOMAIN heap
         /\ lastCall.nfree = Len(lastCall.preSub) + 1
         /\ lastCall.nalloc = 1 + (Len(lastCall.preSub) + 1)
         /\ DOMAIN heap \ lastCall.preLive = Reach(heap, lastCall.sub)
         /\ Cardinality(Reach(heap, lastCall.sub)) = Len(lastCall.preSub) + 1
    /\ Descended =>
         /\ lastCall.nfree = 0 /\ lastCall.nalloc = 1
         /\ DOMAIN heap = lastCall.preLive \cup {lastCall.newNode}
    /\ lastCall.op = "free" =>
         /\ outstanding = 0
         /\ DOMAIN heap = {}
         /\ lastCall.nfree = Cardinality(lastCall.preLive)

\* C5 witness: an insert released and replaced a subtree of at least two
\* nodes that was not the whole tree.
C5_Witness ==
    /\ bstLive /\ Rebuilt
    /\ lastCall.nfree >= 3
    /\ lastCall.nalloc >= 4
    /\ outstanding > lastCall.nfree

\* C6: the occurrence a call added comes, in the in-order traversal, after
\* every key less than or equal to it (so after every earlier occurrence of
\* its key) and before every strictly greater key, and the other keys keep
\* their order.
C6_TieBreak ==
    (bstLive /\ Inserted) =>
      /\ Landed \in TreeNodes
      /\ heap[Landed].key = lastCall.key
      /\ \A i \in 1..Len(TreeKeys) :
           /\ i < Pos(Inorder(heap, root), Landed) => TreeKeys[i] <= lastCall.key
           /\ i > Pos(Inorder(heap, root), Landed) => TreeKeys[i] > lastCall.key
      /\ RemoveAt(TreeKeys, Pos(Inorder(heap, root), Landed)) = lastCall.preKeys

\* C6 witness: a rebuild for a key that the rebuilt subtree already held,
\* together with a strictly greater key.
C6_Witness ==
    /\ bstLive /\ Rebuilt
    /\ \E i \in 1..Len(lastCall.preSub) : lastCall.preSub[i] = lastCall.key
    /\ \E i \in 1..Len(lastCall.preSub) : lastCall.preSub[i] > lastCall.key

\* C7: insertRBST returns 1 on the empty tree, 1 + d after a descent through
\* d nodes to an empty slot, and d + 2s + 3 after a descent through d nodes
\* and a rebuild of a subtree of s nodes (s counted by the flatten, s + 1 by
\* the rebuild).
C7_WorkDone ==
    (bstLive /\ Inserted) =>
      /\ lastCall.preKeys = <<>> => lastCall.ret = 1
      /\ Descended => lastCall.ret = 1 + Depth(heap, root, lastCall.newNode)
      /\ Rebuilt =>
           /\ lastCall.ret = Depth(heap, root, lastCall.sub)
                               + 2 * Len(lastCall.preSub) + 3
           /\ lastCall.nvEnter = 2 + Depth(heap, root, lastCall.sub)
           /\ lastCall.nvFlat - lastCall.nvEnter = Len(lastCall.preSub)
           /\ lastCall.ret - lastCall.nvFlat = Len(lastCall.preSub) + 1

\* C7 witness: a descent through at least one node, then a rebuild of at
\* least two nodes.
C7_Witness ==
    /\ bstLive /\ Rebuilt
    /\ Depth(heap, root, lastCall.sub) >= 1
    /\ Len(lastCall.preSub) >= 2
    /\ lastCall.ret >= 8

\* C9: the flatten of a subtree of s nodes writes the indices 0..s once each
\* and in order, never outside the array; the array is ascending and is the
\* subtree's keys with the new key put after all keys less than or equal to
\* it and before the first greater one; newNodeIndex is set to that index.
C9_Linearize ==
    Rebuilt =>
      /\ lastCall.arrLength = Len(lastCall.preSub) + 1
      /\ lastCall.wr = [i \in 1..lastCall.arrLength |-> i - 1]
      /\ memErr \cap {"oob_write", "bad_array_read", "uninit_newNodeIndex"} = {}
      /\ Sorted(LastArr)
      /\ lastCall.nni \in 0..(lastCall.arrLength - 1)
      /\ LastArr[lastCall.nni + 1] = lastCall.key
      /\ RemoveAt(LastArr, lastCall.nni + 1) = lastCall.preSub
      /\ \A i \in 1..lastCall.arrLength :
           /\ i < lastCall.nni + 1 => LastArr[i] <= lastCall.key
           /\ i > lastCall.nni + 1 => LastArr[i] > lastCall.key

\* C9 witness: a flatten of at least two nodes whose new key is greater than
\* or equal to every old key and goes to the end of the array.
C9_Witness ==
    /\ Rebuilt
    /\ Len(lastCall.preSub) >= 2
    /\ lastCall.nni = lastCall.arrLength - 1

\* C10: the subtree a rebuild returns has the new key at its root, the old
\* keys less than or equal to it in its left subtree and the strictly greater
\* ones in its right subtree, its in-order traversal is the array, and a call
\* rebuilds at most once.
C10_PinnedRoot ==
    /\ lastCall.rebuilds <= 1
    /\ (bstLive /\ Rebuilt) =>
         /\ lastCall.sub \in TreeNodes
         /\ heap[lastCall.sub].key = lastCall.key
         /\ InorderKeys(heap, heap[lastCall.sub].left)
              = SelectSeq(lastCall.preSub, LAMBDA k : k <= lastCall.key)
         /\ InorderKeys(heap, heap[lastCall.sub].right)
              = SelectSeq(lastCall.preSub, LAMBDA k : k > lastCall.key)
         /\ InorderKeys(heap, lastCall.sub) = LastArr
         /\ Reach(heap, lastCall.sub) = DOMAIN heap \ lastCall.preLive

\* C10 witness: a rebuild below the root whose new key has old keys on both
\* sides.
C10_Witness ==
    /\ bstLive /\ Rebuilt
    /\ Depth(heap, root, lastCall.sub) >= 1
    /\ heap[lastCall.sub].left # NULL
    /\ heap[lastCall.sub].right # NULL
====
